---- MODULE Spec2Model ----
(***************************************************************************)
(* State-machine model of the DateTimeRangePicker component                *)
(* (src/src/DateTimeRangePicker.tsx) together with the stateful wrapper of *)
(* its stories, which stores the range the component emits through         *)
(* onChange and hands it back as the `value` prop.                         *)
(*                                                                         *)
(* Time.  An Instant is an integer number of minutes since                 *)
(* 2023-01-01T00:00Z.  A Date object whose local fields carry a wall-clock *)
(* time (what utcToZonedTime returns) is the number of minutes of that     *)
(* wall-clock time since 2023-01-01 00:00; the runtime's own zone is taken *)
(* to be UTC, so that the local fields of a Date are its UTC fields.       *)
(* A calendar date is a day number, 0 = 2023-01-01.                        *)
(* Only the presets are also evaluated in runtimes of the other zones     *)
(* (SpecPreset), where date-fns moves local calendar days.                 *)
(***************************************************************************)
EXTENDS Integers, FiniteSets, Sequences, TLC

VARIABLES
    value,         \* the DateTimeRange held by the consumer: start, end, timezone
    startTime,     \* component state: hour/minute shown in the start time inputs
    endTime,       \* component state: hour/minute shown in the end time inputs
    error,         \* component state: the validation message, or Ok for null
    focusedDate,   \* component state: the date that has keyboard focus, or NULL
    currentMonth,  \* component state: an instant inside the displayed month
    events,        \* history: the number of events handled so far
    last           \* history: the last event handled and what it was applied to

vars == <<value, startTime, endTime, error, focusedDate, currentMonth, events, last>>

----------------------------------------------------------------------------
(* Values and units *)

NULL == -1

MinutesPerHour == 60
MinutesPerDay == 24 * MinutesPerHour

Max(a, b) == IF a >= b THEN a ELSE b
Min(a, b) == IF a <= b THEN a ELSE b

\* Day number of the first day of each month of 2023 (index 0 = January),
\* with the first day of 2024 as a thirteenth entry.
MonthStart == <<0, 31, 59, 90, 120, 151, 181, 212, 243, 273, 304, 334, 365>>

\* Day number of a calendar date of 2023; month is 0-based as in Date.
DayNumber(month, day) == MonthStart[month + 1] + day - 1

\* The instant of a UTC date and time of 2023.
AtUTC(month, day, hour, minute) ==
    DayNumber(month, day) * MinutesPerDay + hour * MinutesPerHour + minute

----------------------------------------------------------------------------
(* The IANA zones the timezone select offers, with their 2023 rules *)

Zones == {"America/New_York", "Europe/London", "Asia/Tokyo"}

\* Daylight saving time of 2023: New York from 2023-03-12T07:00Z to
\* 2023-11-05T06:00Z, London from 2023-03-26T01:00Z to 2023-10-29T01:00Z.
NewYorkDstStart == AtUTC(2, 12, 7, 0)
NewYorkDstEnd == AtUTC(10, 5, 6, 0)
LondonDstStart == AtUTC(2, 26, 1, 0)
LondonDstEnd == AtUTC(9, 29, 1, 0)

\* UTC offset, in minutes, of the zone at the instant.
Offset(zone, instant) ==
    CASE zone = "America/New_York" ->
            IF instant >= NewYorkDstStart /\ instant < NewYorkDstEnd
            THEN -240 ELSE -300
      [] zone = "Europe/London" ->
            IF instant >= LondonDstStart /\ instant < LondonDstEnd
            THEN 60 ELSE 0
      [] zone = "Asia/Tokyo" -> 540
      [] zone = "UTC" -> 0

\* date-fns-tz utcToZonedTime: a Date whose local fields are the wall-clock
\* time of the instant in the zone.
utcToZonedTime(instant, timeZone) == instant + Offset(timeZone, instant)

\* date-fns-tz fixOffset: the offset to use for a wall-clock time, starting
\* from the offset guessed by reading the wall-clock time as an instant.
fixOffset(wall, offset, timeZone) ==
    LET o2 == Offset(timeZone, wall - offset)
        o3 == Offset(timeZone, wall - o2)
    IN  IF offset = o2 THEN offset
        ELSE IF o2 = o3 THEN o2
        ELSE Max(o2, o3)

\* zonedTimeToUtc that keeps the guessed offset, the one in force at the
\* wall-clock time read as an instant.
zonedTimeToUtc_FirstGuess(wall, timeZone) == wall - Offset(timeZone, wall)

\* date-fns-tz zonedTimeToUtc: the instant at which the zone shows the
\* wall-clock time carried by the local fields of the Date.
zonedTimeToUtc(wall, timeZone) == wall - fixOffset(wall, Offset(timeZone, wall), timeZone)

\* Date.prototype.setHours(hour, minute) on a Date carrying a wall-clock
\* time: same calendar day, the given hour and minute (values outside
\* 0-23 / 0-59 carry over into the neighbouring days and hours).
setHours(wall, hour, minute) ==
    (wall \div MinutesPerDay) * MinutesPerDay + hour * MinutesPerHour + minute

\* The zoned wall clock of an instant, field by field.
ZonedDay(instant, timeZone) == utcToZonedTime(instant, timeZone) \div MinutesPerDay
ZonedHour(instant, timeZone) == (utcToZonedTime(instant, timeZone) % MinutesPerDay) \div MinutesPerHour
ZonedMinute(instant, timeZone) == utcToZonedTime(instant, timeZone) % MinutesPerHour

----------------------------------------------------------------------------
(* Props handed to the component: constraints, presets; and the wall time *)

\* The Constraints prop.  blackouts are calendar dates (day numbers); an
\* absent bound or duration is NULL.  The stories pass a minimum and maximum
\* instant, one blackout date and the two durations; the dates are placed
\* around the displayed days so that every rule can apply.
constraints ==
    [ min         |-> AtUTC(2, 11, 0, 0),
      max         |-> AtUTC(2, 14, 2, 0),
      blackouts   |-> {DayNumber(2, 13)},
      minDuration |-> MinutesPerHour,
      maxDuration |-> MinutesPerDay ]

\* What `new Date()` returns while the picker is open.
Now == AtUTC(2, 14, 12, 0)

\* date-fns subDays in a runtime whose zone is UTC.
subDays(date, amount) == date - amount * MinutesPerDay

\* date-fns addDays in a runtime whose zone is UTC.
addDays(date, amount) == date + amount * MinutesPerDay

\* date-fns isBefore.
isBefore(date, dateToCompare) == date < dateToCompare

\* The presets of the stories, by label: getRange(now).
Presets == {"Last 24 hours", "Last 7 days"}

getRange(preset, now) ==
    IF preset = "Last 24 hours"
    THEN [start |-> subDays(now, 1), end |-> now]
    ELSE [start |-> subDays(now, 7), end |-> now]

\* The initial values of the stories: Default / KeyboardOnly,
\* WithDSTTransition and InvalidRange (start = now, end = ten days before;
\* the ten days are kept, `now` is the model's).
DefaultValue ==
    [start |-> NULL, end |-> NULL, timezone |-> "America/New_York"]

WithDSTTransitionValue ==
    [start |-> AtUTC(2, 12, 12, 0), end |-> AtUTC(2, 13, 12, 0),
     timezone |-> "America/New_York"]

InvalidRangeValue ==
    [start |-> Now, end |-> subDays(Now, 10), timezone |-> "America/New_York"]

StoryValues == {DefaultValue, WithDSTTransitionValue, InvalidRangeValue}

----------------------------------------------------------------------------
(* utils: calendar grid, disabled dates, validation *)

\* Date.prototype.getMonth in a runtime whose zone is UTC (all of 2023).
getMonth(instant) ==
    CHOOSE m \in 0..11 :
        /\ MonthStart[m + 1] <= instant \div MinutesPerDay
        /\ instant \div MinutesPerDay < MonthStart[m + 2]

\* CalendarGrid.daysOf: one instant per calendar day of the month, the
\* local midnight of that day in the zone.
getCalendarDays(month, timeZone) ==
    { zonedTimeToUtc(d * MinutesPerDay, timeZone) :
        d \in MonthStart[month + 1] .. (MonthStart[month + 2] - 1) }

\* A date is disabled when it is before constraints.min, after
\* constraints.max, or its zoned calendar date is a blackout date.
isDateDisabled(date, c, timeZone) ==
    \/ c.min # NULL /\ date < c.min
    \/ c.max # NULL /\ date > c.max
    \/ ZonedDay(date, timeZone) \in c.blackouts

\* The value of a validation that found no violation (the component's
\* `error` is then null).
Ok == "Ok"

\* validate with the duration rules ahead of the blackout rule.
validate_DurationBeforeBlackout(start, end, c, timeZone) ==
    IF start = NULL \/ end = NULL THEN Ok
    ELSE IF c.min # NULL /\ start < c.min THEN "BelowMinimum"
    ELSE IF c.max # NULL /\ end > c.max THEN "AboveMaximum"
    ELSE IF c.minDuration # NULL /\ end - start < c.minDuration THEN "TooShort"
    ELSE IF c.maxDuration # NULL /\ end - start > c.maxDuration THEN "TooLong"
    ELSE IF \E b \in c.blackouts :
                ZonedDay(start, timeZone) <= b /\ b <= ZonedDay(end, timeZone)
         THEN "ContainsBlackout"
    ELSE Ok

\* RangeConstraintValidator.validate with the zone whose calendar dates the
\* blackout rule compares: Ok, or the first violated rule.
validate(start, end, c, timeZone) ==
    IF start = NULL \/ end = NULL THEN Ok
    ELSE IF c.min # NULL /\ start < c.min THEN "BelowMinimum"
    ELSE IF c.max # NULL /\ end > c.max THEN "AboveMaximum"
    ELSE IF \E b \in c.blackouts :
                ZonedDay(start, timeZone) <= b /\ b <= ZonedDay(end, timeZone)
         THEN "ContainsBlackout"
    ELSE IF c.minDuration # NULL /\ end - start < c.minDuration THEN "TooShort"
    ELSE IF c.maxDuration # NULL /\ end - start > c.maxDuration THEN "TooLong"
    ELSE Ok

\* The zone of the runtime, the only one validateRange can consult: the
\* component calls it without a timezone argument.
LocalZone == "UTC"

\* validateRange as the component calls it: (start, end, constraints).
validateRange(start, end, c) == validate(start, end, c, LocalZone)

----------------------------------------------------------------------------
(* The component: derived values *)

tz == value.timezone

\* The days of the displayed month in the selected zone.
calendarDays == getCalendarDays(getMonth(currentMonth), tz)

\* Selection state, derived from the presence of start and end.
Kind(v) ==
    IF v.start = NULL THEN "Empty"
    ELSE IF v.end = NULL THEN "PartialStart"
    ELSE "Complete"

\* applyDisabled without the tests of start and end.
applyDisabled_ErrorOnly(err, v) == err # Ok

\* The `disabled` attribute of the Apply button.
applyDisabled(err, v) == err # Ok \/ v.start = NULL \/ v.end = NULL

ApplyEnabled == ~applyDisabled(error, value)

\* selectRange with the two dates never exchanged.
selectRange_NoSwap(v, date) ==
    IF v.start = NULL \/ (v.start # NULL /\ v.end # NULL)
    THEN [start |-> date, end |-> NULL]
    ELSE [start |-> v.start, end |-> date]

\* selectRange with the arguments of isBefore exchanged.
selectRange_SwapInverted(v, date) ==
    IF v.start = NULL \/ (v.start # NULL /\ v.end # NULL)
    THEN [start |-> date, end |-> NULL]
    ELSE IF isBefore(v.start, date)
         THEN [start |-> date, end |-> v.start]
         ELSE [start |-> v.start, end |-> date]

\* selectRange with the end of a complete range kept on a new first click.
selectRange_KeepEnd(v, date) ==
    IF v.start = NULL \/ (v.start # NULL /\ v.end # NULL)
    THEN [start |-> date, end |-> v.end]
    ELSE IF isBefore(date, v.start)
         THEN [start |-> date, end |-> v.start]
         ELSE [start |-> v.start, end |-> date]

\* selectRange that opens a new range at its end.
selectRange_EndFirst(v, date) ==
    IF v.start = NULL \/ (v.start # NULL /\ v.end # NULL)
    THEN [start |-> NULL, end |-> date]
    ELSE IF isBefore(date, v.start)
         THEN [start |-> date, end |-> v.start]
         ELSE [start |-> v.start, end |-> date]

\* handleDateSelect, the new start and end for a date that is not disabled.
selectRange(v, date) ==
    IF v.start = NULL \/ (v.start # NULL /\ v.end # NULL)
    THEN [start |-> date, end |-> NULL]
    ELSE IF isBefore(date, v.start)
         THEN [start |-> date, end |-> v.start]
         ELSE [start |-> v.start, end |-> date]

\* editInstant with setHours applied to the instant itself, no zone involved.
editInstant_NoZone(instant, time, zone) ==
    setHours(instant, time.hour, time.minute)

\* handleTimeChange, the new instant of the edited endpoint: to the wall
\* clock of the zone, hour and minute overwritten, back to an instant.
editInstant(instant, time, zone) ==
    zonedTimeToUtc(setHours(utcToZonedTime(instant, zone), time.hour, time.minute), zone)

----------------------------------------------------------------------------
(* Inputs the model draws events from *)

\* Days of the displayed month whose buttons are clicked or focused.
ClickDays == {11, 12, 13, 14}

\* The entries of calendarDays for those days.
GridDates ==
    { zonedTimeToUtc(DayNumber(getMonth(currentMonth), d) * MinutesPerDay, tz) :
        d \in ClickDays }

\* Values typed into the hour and minute inputs.
TimeVals(field) == IF field = "hour" THEN {2, 23} ELSE {30}

\* The number of events of a session the model follows.
MaxEvents == 4

\* Arrow keys keep the focused date inside this window of instants.
FocusWindow == AtUTC(2, 10, 0, 0) .. AtUTC(2, 15, 0, 0)

\* The record of the last event.
Event(op, date, which) ==
    [ op         |-> op,
      date       |-> date,
      which      |-> which,
      from       |-> Kind(value),
      disabled   |-> date # NULL /\ isDateDisabled(date, constraints, tz),
      couldApply |-> ApplyEnabled ]

Plain(op) ==
    [ op |-> op, date |-> NULL, which |-> "none", from |-> "any",
      disabled |-> FALSE, couldApply |-> FALSE ]

----------------------------------------------------------------------------
(* The component: state after mounting, and event handlers *)

TypeOK ==
    /\ value.start \in Int /\ value.end \in Int /\ value.timezone \in Zones
    /\ startTime.hour \in Int /\ startTime.minute \in Int
    /\ endTime.hour \in Int /\ endTime.minute \in Int
    /\ error \in {Ok, "BelowMinimum", "AboveMaximum", "ContainsBlackout",
                  "TooShort", "TooLong"}
    /\ focusedDate \in Int
    /\ currentMonth \in Int

InitComponent ==
    /\ currentMonth = Now
    /\ focusedDate = NULL
    /\ startTime = [hour |-> 0, minute |-> 0]
    /\ endTime = [hour |-> 23, minute |-> 59]
    /\ error = Ok
    /\ events = 0
    /\ last = Plain("init")

\* Any story.
Init == value \in StoryValues /\ InitComponent

\* The Default and KeyboardOnly stories: an empty range.
InitDefault == value = DefaultValue /\ InitComponent

\* handleDateSelect without the test of isDateDisabled.
handleDateSelect_NoGuard(date) ==
    /\ LET r == selectRange(value, date) IN
       /\ error' = validateRange(r.start, r.end, constraints)
       /\ value' = [value EXCEPT !.start = r.start, !.end = r.end]
    /\ UNCHANGED <<startTime, endTime, focusedDate, currentMonth>>

\* handleDateSelect that keeps the range when the new pair is invalid.
handleDateSelect_Blocking(date) ==
    /\ IF isDateDisabled(date, constraints, tz)
       THEN UNCHANGED <<value, error>>
       ELSE LET r == selectRange(value, date)
                e == validateRange(r.start, r.end, constraints) IN
            /\ error' = e
            /\ value' = IF e = Ok
                        THEN [value EXCEPT !.start = r.start, !.end = r.end]
                        ELSE value
    /\ UNCHANGED <<startTime, endTime, focusedDate, currentMonth>>

handleDateSelect(date) ==
    /\ IF isDateDisabled(date, constraints, tz)
       THEN UNCHANGED <<value, error>>
       ELSE LET r == selectRange(value, date) IN
            /\ error' = validateRange(r.start, r.end, constraints)
            /\ value' = [value EXCEPT !.start = r.start, !.end = r.end]
    /\ UNCHANGED <<startTime, endTime, focusedDate, currentMonth>>

\* One more event of the session.
Counted == events < MaxEvents /\ events' = events + 1

\* onClick of a day button.
DateClick(date) ==
    /\ handleDateSelect(date)
    /\ last' = Event("click", date, "none")
    /\ Counted

\* handleTimeChange that edits from the other endpoint when the one named
\* is absent.
handleTimeChange_DefaultsToOtherEndpoint(type, field, val) ==
    LET updatedTime == IF type = "start"
                       THEN [startTime EXCEPT ![field] = val]
                       ELSE [endTime EXCEPT ![field] = val]
        base == IF type = "start"
                THEN (IF value.start # NULL THEN value.start ELSE value.end)
                ELSE (IF value.end # NULL THEN value.end ELSE value.start)
        newValue ==
            IF base = NULL THEN value
            ELSE IF type = "start"
            THEN [value EXCEPT !.start = editInstant(base, updatedTime, tz)]
            ELSE [value EXCEPT !.end = editInstant(base, updatedTime, tz)]
    IN  /\ startTime' = IF type = "start" THEN updatedTime ELSE startTime
        /\ endTime' = IF type = "end" THEN updatedTime ELSE endTime
        /\ error' = validateRange(newValue.start, newValue.end, constraints)
        /\ value' = newValue
        /\ UNCHANGED <<focusedDate, currentMonth>>

handleTimeChange(type, field, val) ==
    LET updatedTime == IF type = "start"
                       THEN [startTime EXCEPT ![field] = val]
                       ELSE [endTime EXCEPT ![field] = val]
        newValue ==
            IF type = "start" /\ value.start # NULL
            THEN [value EXCEPT !.start = editInstant(value.start, updatedTime, tz)]
            ELSE IF type = "end" /\ value.end # NULL
            THEN [value EXCEPT !.end = editInstant(value.end, updatedTime, tz)]
            ELSE value
    IN  /\ startTime' = IF type = "start" THEN updatedTime ELSE startTime
        /\ endTime' = IF type = "end" THEN updatedTime ELSE endTime
        /\ error' = validateRange(newValue.start, newValue.end, constraints)
        /\ value' = newValue
        /\ UNCHANGED <<focusedDate, currentMonth>>

\* onChange of one of the four time inputs.
TimeChange(type, field, val) ==
    /\ handleTimeChange(type, field, val)
    /\ last' = Event("time", NULL, type)
    /\ Counted

handlePresetSelect(preset, now) ==
    LET range == getRange(preset, now) IN
    /\ value' = [value EXCEPT !.start = range.start, !.end = range.end]
    /\ error' = Ok
    /\ UNCHANGED <<startTime, endTime, focusedDate, currentMonth>>

\* onClick of a preset button.
PresetClick(preset) ==
    /\ handlePresetSelect(preset, Now)
    /\ last' = Plain("preset")
    /\ Counted

\* onChange of the timezone select.
TimezoneChange(zone) ==
    /\ zone # tz
    /\ value' = [value EXCEPT !.timezone = zone]
    /\ UNCHANGED <<startTime, endTime, error, focusedDate, currentMonth>>
    /\ last' = Plain("timezone")
    /\ Counted

\* onFocus of a day button; a disabled button takes no focus.
Focus(date) ==
    /\ ~isDateDisabled(date, constraints, tz)
    /\ focusedDate # date
    /\ focusedDate' = date
    /\ UNCHANGED <<value, startTime, endTime, error, currentMonth>>
    /\ last' = Plain("focus")
    /\ Counted

\* handleKeyDown with an arrow key: amount is -1, 1, -7 or 7 days.
ArrowKey(amount) ==
    /\ focusedDate # NULL
    /\ addDays(focusedDate, amount) \in FocusWindow
    /\ focusedDate' = addDays(focusedDate, amount)
    /\ UNCHANGED <<value, startTime, endTime, error, currentMonth>>
    /\ last' = Plain("arrow")
    /\ Counted

\* handleKeyDown with Enter.
EnterKey ==
    /\ focusedDate # NULL
    /\ handleDateSelect(focusedDate)
    /\ last' = Event("enter", focusedDate, "none")
    /\ Counted

\* onClick of the Apply button: onApply(value).
Apply ==
    /\ ApplyEnabled
    /\ UNCHANGED <<value, startTime, endTime, error, focusedDate, currentMonth>>
    /\ last' = Plain("apply")
    /\ Counted

Next ==
    \/ \E date \in GridDates : DateClick(date)
    \/ \E type \in {"start", "end"}, field \in {"hour", "minute"} :
          \E val \in TimeVals(field) : TimeChange(type, field, val)
    \/ \E preset \in Presets : PresetClick(preset)
    \/ \E zone \in Zones : TimezoneChange(zone)
    \/ \E date \in GridDates : Focus(date)
    \/ \E amount \in {-1, 1, -7, 7} : ArrowKey(amount)
    \/ EnterKey
    \/ Apply

Spec == Init /\ [][Next]_vars

SpecDefault == InitDefault /\ [][Next]_vars

\* Date clicks only, from any range the consumer may hand in first: the
\* instants of the stories, each present or absent, in each zone.
StartingInstants ==
    {NULL, AtUTC(2, 12, 12, 0), AtUTC(2, 13, 12, 0), Now, subDays(Now, 10)}

InitAnyRange ==
    /\ value \in [start : StartingInstants, end : StartingInstants, timezone : Zones]
    /\ InitComponent

NextSelect == \E date \in GridDates : DateClick(date)

SpecSelect == InitAnyRange /\ [][NextSelect]_vars

----------------------------------------------------------------------------
(* The calendar grid: weekday columns and month navigation *)

\* The weekday of a day number, Monday = 0 .. Sunday = 6; 2023-01-01 was a
\* Sunday.
MondayIndex(day) == (day + 6) % 7

\* The column headers, Monday first.
weekDays == <<"M", "T", "W", "T", "F", "S", "S">>

\* Intl.DateTimeFormat('en', {timeZone, weekday: 'narrow'}).format(date):
\* the first letter of the English name of the zoned weekday.
narrowWeekday(date, timeZone) ==
    CASE MondayIndex(ZonedDay(date, timeZone)) = 0 -> "M"
      [] MondayIndex(ZonedDay(date, timeZone)) = 1 -> "T"
      [] MondayIndex(ZonedDay(date, timeZone)) = 2 -> "W"
      [] MondayIndex(ZonedDay(date, timeZone)) = 3 -> "T"
      [] MondayIndex(ZonedDay(date, timeZone)) = 4 -> "F"
      [] MondayIndex(ZonedDay(date, timeZone)) = 5 -> "S"
      [] MondayIndex(ZonedDay(date, timeZone)) = 6 -> "S"

\* Array.prototype.indexOf: the zero-based index of the first element equal
\* to x, or -1.
indexOf(array, x) ==
    IF \E i \in 1..Len(array) : array[i] = x
    THEN (CHOOSE i \in 1..Len(array) :
             array[i] = x /\ \A j \in 1..(i - 1) : array[j] # x) - 1
    ELSE -1

\* calendarDays[0], the first day of the displayed month.
firstDay == CHOOSE d \in calendarDays : \A e \in calendarDays : d <= e

firstDayOfWeek == narrowWeekday(firstDay, tz)

\* The number of blank cells rendered before the first day button.
startIndex == indexOf(weekDays, firstDayOfWeek)

\* date-fns addMonths in a runtime whose zone is UTC: the same day of the
\* month and time of day, the day clamped to the length of the target month.
addMonths(date, amount) ==
    LET month == getMonth(date)
        target == month + amount
        dayOfMonth == date \div MinutesPerDay - MonthStart[month + 1]
        lastOfTarget == MonthStart[target + 2] - MonthStart[target + 1] - 1
    IN  (MonthStart[target + 1] + Min(dayOfMonth, lastOfTarget)) * MinutesPerDay
          + (date % MinutesPerDay)

subMonths(date, amount) == addMonths(date, -amount)

\* onClick of the previous-month button, within 2023.
PrevMonth ==
    /\ getMonth(currentMonth) > 0
    /\ currentMonth' = subMonths(currentMonth, 1)
    /\ UNCHANGED <<value, startTime, endTime, error, focusedDate>>
    /\ last' = Plain("month")
    /\ Counted

\* onClick of the next-month button, within 2023.
NextMonth ==
    /\ getMonth(currentMonth) < 11
    /\ currentMonth' = addMonths(currentMonth, 1)
    /\ UNCHANGED <<value, startTime, endTime, error, focusedDate>>
    /\ last' = Plain("month")
    /\ Counted

\* Browsing the calendar: month navigation and the timezone select.
NextCalendar ==
    \/ PrevMonth
    \/ NextMonth
    \/ \E zone \in Zones : TimezoneChange(zone)

SpecCalendar == Init /\ [][NextCalendar]_vars

----------------------------------------------------------------------------
(* Time-of-day edits around the DST transitions of 2023 *)

\* How many steps of 90 minutes before and after a transition the start of
\* the range handed in may lie.
ClockSpan == 3

\* Starts of the range handed in: instants around each DST transition.
ClockInstants ==
    { transition + k * 90 :
        transition \in {NewYorkDstStart, NewYorkDstEnd, LondonDstStart, LondonDstEnd},
        k \in -ClockSpan .. ClockSpan }

\* Values typed into the start time inputs.
ClockVals(field) == IF field = "hour" THEN {1, 2, 3} ELSE {0, 30}

InitClock ==
    /\ value \in [start : ClockInstants, end : {NULL}, timezone : Zones]
    /\ InitComponent

\* onChange of a start time input; the event keeps the start it found.
ClockEdit(field, val) ==
    /\ handleTimeChange("start", field, val)
    /\ last' = Event("time", value.start, "start")
    /\ Counted

NextClock ==
    \E field \in {"hour", "minute"} : \E val \in ClockVals(field) : ClockEdit(field, val)

SpecClock == InitClock /\ [][NextClock]_vars

----------------------------------------------------------------------------
(* Vocabulary of the properties *)

BothPresent(v) == v.start # NULL /\ v.end # NULL

Ordered(v) == BothPresent(v) => v.start <= v.end

\* selectDate(current, date): a click on the date's button, or Enter while
\* the date has the focus.
SelectDate(date) == DateClick(date) \/ (EnterKey /\ focusedDate = date)

Selectable == GridDates \cup {focusedDate}

Enabled(date) == ~isDateDisabled(date, constraints, tz)

LastSelect == last.op \in {"click", "enter"}

\* The instants at which the zone shows the wall-clock time: none in the
\* hour skipped in spring, two in the hour repeated in autumn.
InstantsShowing(wall, zone) ==
    { i \in { wall - o : o \in {-300, -240, 0, 60, 540} } :
        utcToZonedTime(i, zone) = wall }

NoTransitionAt(wall, zone) == Cardinality(InstantsShowing(wall, zone)) = 1

HourInRange(time) == time.hour \in 0..23 /\ time.minute \in 0..59

----------------------------------------------------------------------------
(* Presets in a runtime of any zone *)

\* Zones the runtime (the browser) may be in.
RuntimeZones == Zones \cup {LocalZone}

\* The instant of a Date built from local fields in a runtime of the zone:
\* a wall-clock time shown twice is the earlier instant, one never shown is
\* read with the offset in force before the transition.
localToUtc(wall, runtime) ==
    LET shown == InstantsShowing(wall, runtime) IN
    IF shown # {}
    THEN CHOOSE i \in shown : \A j \in shown : i <= j
    ELSE wall - Offset(runtime, wall - MinutesPerDay)

\* date-fns subDays in a runtime of the zone: setDate(getDate() - amount)
\* on the local fields, the local time of day kept.
subDaysIn(date, amount, runtime) ==
    localToUtc(utcToZonedTime(date, runtime) - amount * MinutesPerDay, runtime)

\* getRangeIn with the two ends the other way round.
getRangeIn_EndFirst(preset, now, runtime) ==
    IF preset = "Last 24 hours"
    THEN [start |-> now, end |-> subDaysIn(now, 1, runtime)]
    ELSE [start |-> now, end |-> subDaysIn(now, 7, runtime)]

\* The presets of the stories, evaluated in a runtime of the zone.
getRangeIn(preset, now, runtime) ==
    IF preset = "Last 24 hours"
    THEN [start |-> subDaysIn(now, 1, runtime), end |-> now]
    ELSE [start |-> subDaysIn(now, 7, runtime), end |-> now]

\* handlePresetSelectIn with the spread the other way round:
\* {...range, ...value}.
handlePresetSelectIn_ValueOverRange(preset, now, runtime) ==
    /\ value' = value
    /\ error' = Ok
    /\ UNCHANGED <<startTime, endTime, focusedDate, currentMonth>>

\* handlePresetSelect at the instant `now` in a runtime of the zone.
handlePresetSelectIn(preset, now, runtime) ==
    LET range == getRangeIn(preset, now, runtime) IN
    /\ value' = [value EXCEPT !.start = range.start, !.end = range.end]
    /\ error' = Ok
    /\ UNCHANGED <<startTime, endTime, focusedDate, currentMonth>>

\* Instants at which a preset button is clicked: the stories' now, two
\* instants a week after a wall-clock time that New York skips or repeats,
\* two ordinary ones.
PresetNows ==
    { Now, AtUTC(2, 19, 6, 30), AtUTC(10, 12, 6, 30), AtUTC(5, 10, 0, 0),
      AtUTC(3, 2, 18, 0) }

\* onClick of a preset button; the event keeps the preset, the instant and
\* the zone of the runtime.
PresetClickAt(preset, now, runtime) ==
    /\ handlePresetSelectIn(preset, now, runtime)
    /\ last' = Event(preset, now, runtime)
    /\ Counted

NextPreset ==
    \/ \E preset \in Presets, now \in PresetNows, runtime \in RuntimeZones :
          PresetClickAt(preset, now, runtime)
    \/ \E date \in GridDates : DateClick(date)

SpecPreset == Init /\ [][NextPreset]_vars

----------------------------------------------------------------------------
(* Keyboard navigation over several weeks *)

ArrowKeys == {"ArrowLeft", "ArrowRight", "ArrowUp", "ArrowDown"}

\* keyAmount with the vertical keys moving by one day.
keyAmount_VerticalByOneDay(key) ==
    CASE key = "ArrowLeft" -> -1
      [] key = "ArrowRight" -> 1
      [] key = "ArrowUp" -> -1
      [] key = "ArrowDown" -> 1

\* handleKeyDown, the days an arrow key adds to the focused date.
keyAmount(key) ==
    CASE key = "ArrowLeft" -> -1
      [] key = "ArrowRight" -> 1
      [] key = "ArrowUp" -> -7
      [] key = "ArrowDown" -> 7

\* The instants the focused date is followed over: February to April 2023.
KeyWindow == AtUTC(1, 1, 0, 0) .. AtUTC(3, 30, 0, 0)

\* handleKeyDown with an arrow key; the event keeps the key and the date
\* that had the focus.
ArrowKeyPress(key) ==
    /\ focusedDate # NULL
    /\ addDays(focusedDate, keyAmount(key)) \in KeyWindow
    /\ focusedDate' = addDays(focusedDate, keyAmount(key))
    /\ UNCHANGED <<value, startTime, endTime, error, currentMonth>>
    /\ last' = Event(key, focusedDate, "none")
    /\ Counted

NextKeys ==
    \/ \E date \in GridDates : Focus(date)
    \/ \E key \in ArrowKeys : ArrowKeyPress(key)
    \/ \E date \in GridDates : DateClick(date)

SpecKeys == Init /\ [][NextKeys]_vars

----------------------------------------------------------------------------
(* A value whose timezone the runtime does not know *)

\* Zone identifiers the runtime resolves: the options of the select and the
\* README's 'UTC'.
IanaZones == Zones \cup {"UTC"}

\* An identifier that is not a zone.
UnknownZone == "Mars/Phobos"

\* Intl.DateTimeFormat that takes UTC for an identifier it does not know.
intlTimeZone_FallbackUTC(timeZone) ==
    IF timeZone \in IanaZones THEN timeZone ELSE "UTC"

\* new Intl.DateTimeFormat('en', {timeZone}): the zone it formats in, or
\* the RangeError it throws for an identifier it does not know.
intlTimeZone(timeZone) ==
    IF timeZone \in IanaZones THEN timeZone ELSE "RangeError"

\* The component's render returns instead of throwing.
renders == intlTimeZone(tz) # "RangeError"

\* The stories' values with any timezone the consumer may hand in.
InitConfig ==
    /\ value \in { [v EXCEPT !.timezone = zone] :
                     v \in StoryValues, zone \in IanaZones \cup {UnknownZone} }
    /\ InitComponent

\* Events reach only a component that rendered.
NextConfig ==
    /\ renders
    /\ \/ \E date \in GridDates : DateClick(date)
       \/ \E zone \in Zones : TimezoneChange(zone)

SpecConfig == InitConfig /\ [][NextConfig]_vars

----------------------------------------------------------------------------
(* The keyboard handler as a whole, with month navigation *)

\* Keys that reach the grid: the arrows, Enter, and one the handler ignores.
Keys == ArrowKeys \cup {"Enter", "Tab"}

\* handleKeyDown whose Enter selects the focused date without the test of
\* isDateDisabled.
handleKeyDown_EnterUnguarded(key) ==
    IF focusedDate = NULL
    THEN UNCHANGED <<value, startTime, endTime, error, focusedDate, currentMonth>>
    ELSE IF key \in ArrowKeys
    THEN /\ focusedDate' = addDays(focusedDate, keyAmount(key))
         /\ UNCHANGED <<value, startTime, endTime, error, currentMonth>>
    ELSE IF key = "Enter"
    THEN handleDateSelect_NoGuard(focusedDate)
    ELSE UNCHANGED <<value, startTime, endTime, error, focusedDate, currentMonth>>

handleKeyDown(key) ==
    IF focusedDate = NULL
    THEN UNCHANGED <<value, startTime, endTime, error, focusedDate, currentMonth>>
    ELSE IF key \in ArrowKeys
    THEN /\ focusedDate' = addDays(focusedDate, keyAmount(key))
         /\ UNCHANGED <<value, startTime, endTime, error, currentMonth>>
    ELSE IF key = "Enter"
    THEN handleDateSelect(focusedDate)
    ELSE UNCHANGED <<value, startTime, endTime, error, focusedDate, currentMonth>>

\* onKeyDown of the grid; the event keeps the key and the date that had the
\* focus.
KeyDown(key) ==
    /\ handleKeyDown(key)
    /\ focusedDate' # NULL => focusedDate' \in KeyWindow
    /\ last' = Event(key, focusedDate, "none")
    /\ Counted

NextKeyboard ==
    \/ \E date \in GridDates : Focus(date)
    \/ \E key \in Keys : KeyDown(key)
    \/ \E date \in GridDates : DateClick(date)
    \/ PrevMonth
    \/ NextMonth

SpecKeyboard == Init /\ [][NextKeyboard]_vars

----------------------------------------------------------------------------
(* Time inputs with any integer typed into them *)

\* What parseInt(e.target.value) || 0 hands over: the number typed, in or
\* out of the input's min..max, or 0 for an empty input.
TypedVals(field) == IF field = "hour" THEN {-1, 0, 7, 24} ELSE {0, 15, 60}

\* onChange of a time input; the event keeps the endpoint it found.
TypeTime(type, field, val) ==
    /\ handleTimeChange(type, field, val)
    /\ last' = Event("time", IF type = "start" THEN value.start ELSE value.end, type)
    /\ Counted

NextTyping ==
    \E type \in {"start", "end"}, field \in {"hour", "minute"} :
        \E val \in TypedVals(field) : TypeTime(type, field, val)

SpecTyping == Init /\ [][NextTyping]_vars

----------------------------------------------------------------------------
(* The calendar header, for a picker mounted at any instant *)

\* formatInTimezone(instant, timeZone, 'MMMM yyyy'), the month it names (all
\* instants followed lie in 2023): the month of the zoned wall-clock time.
formatInTimezoneMonth(instant, timeZone) == getMonth(utcToZonedTime(instant, timeZone))

\* The month named in the header.
headerMonth == formatInTimezoneMonth(currentMonth, tz)

\* What `new Date()` may return when the picker mounts: the middle of a
\* month, the first hours of one, the last hours of one, a 31st.
MountInstants ==
    { Now, AtUTC(3, 1, 1, 0), AtUTC(4, 31, 20, 0), AtUTC(6, 31, 12, 0) }

InitHeader ==
    /\ value \in StoryValues
    /\ currentMonth \in MountInstants
    /\ focusedDate = NULL
    /\ startTime = [hour |-> 0, minute |-> 0]
    /\ endTime = [hour |-> 23, minute |-> 59]
    /\ error = Ok
    /\ events = 0
    /\ last = Plain("init")

SpecHeader == InitHeader /\ [][NextCalendar]_vars

----------------------------------------------------------------------------
(* Properties *)

\* C1: in every reachable state, Apply is enabled only if validation of the
\* current start and end against the constraints returns Ok.
C1_ApplyOnlyIfCurrentRangeValid ==
    ApplyEnabled => validateRange(value.start, value.end, constraints) = Ok

\* C2: starting from an empty range, whenever start and end are both
\* present, start <= end.
C2_StartNotAfterEnd ==
    BothPresent(value) => value.start <= value.end

\* C3 as stated: after a non-empty sequence of date clicks from any
\* starting range, start <= end when both are present.
C3_OrderedAfterAnyClicks ==
    (last.op = "click" /\ BothPresent(value)) => value.start <= value.end

\* C3 as amended: a date click on a date that is not disabled leaves the
\* range ordered, and a date click on any date keeps an ordered range
\* ordered; so after a sequence of date clicks the range is ordered if the
\* starting range was, or if one of the clicks was on a date not disabled.
C3_ClicksEstablishAndKeepOrder ==
    [][ \A date \in GridDates :
          (DateClick(date) /\ (Ordered(value) \/ Enabled(date)))
              => Ordered(value') ]_vars

C3_Witness ==
    /\ events >= 2
    /\ last.op = "click" /\ ~last.disabled /\ last.from = "PartialStart"
    /\ BothPresent(value) /\ value.start <= value.end

\* C4: selecting a date that is not disabled, with no start or with both
\* start and end present, gives start = the date and no end.
C4_SelectStartsNewRange ==
    [][ \A date \in Selectable :
          (SelectDate(date) /\ Enabled(date)
                            /\ Kind(value) \in {"Empty", "Complete"})
              => (value'.start = date /\ value'.end = NULL) ]_vars

C4_Witness ==
    /\ LastSelect /\ ~last.disabled /\ last.from = "Complete"
    /\ value.start = last.date /\ value.end = NULL

\* C5: selecting a date d that is not disabled, with start s present and
\* no end, gives start = min(s, d) and end = max(s, d).
C5_SelectCompletesInOrder ==
    [][ \A date \in Selectable :
          (SelectDate(date) /\ Enabled(date) /\ Kind(value) = "PartialStart")
              => /\ value'.start = Min(value.start, date)
                 /\ value'.end = Max(value.start, date) ]_vars

C5_Witness ==
    /\ LastSelect /\ ~last.disabled /\ last.from = "PartialStart"
    /\ value.start = last.date /\ value.end > value.start

\* C6: selecting a disabled date changes neither start, end, timezone nor
\* the validation error, whatever the selection state.
C6_DisabledSelectIsNoOp ==
    [][ \A date \in Selectable :
          (SelectDate(date) /\ ~Enabled(date)) => UNCHANGED <<value, error>> ]_vars

C6_Witness ==
    /\ LastSelect /\ last.disabled /\ last.from = "PartialStart"
    /\ Kind(value) = "PartialStart"

\* C7: from a range with a start and no end, selecting a date that is not
\* disabled always completes the range with that date; the error is the
\* validation of the new pair, and Apply is disabled when it is a violation.
C7_ValidationDoesNotBlockSecondClick ==
    [][ \A date \in Selectable :
          (SelectDate(date) /\ Enabled(date) /\ Kind(value) = "PartialStart")
              => /\ BothPresent(value')
                 /\ date \in {value'.start, value'.end}
                 /\ error' = validateRange(value'.start, value'.end, constraints)
                 /\ (error' # Ok => ~ApplyEnabled') ]_vars

C7_Witness ==
    /\ LastSelect /\ ~last.disabled /\ last.from = "PartialStart"
    /\ BothPresent(value) /\ last.date \in {value.start, value.end}
    /\ error # Ok /\ ~ApplyEnabled

\* C8: Apply is disabled whenever start or end is absent, Apply is never
\* clicked on such a range, and selecting a date that is not disabled from a
\* complete range with Apply enabled leaves Apply disabled.
C8_ApplyNeedsBothEndpoints ==
    /\ ~BothPresent(value) => ~ApplyEnabled
    /\ last.op = "apply" => BothPresent(value)
    /\ (LastSelect /\ ~last.disabled /\ last.from = "Complete" /\ last.couldApply)
          => ~ApplyEnabled

C8_Witness ==
    /\ LastSelect /\ ~last.disabled /\ last.from = "Complete" /\ last.couldApply
    /\ value.end = NULL /\ ~ApplyEnabled

\* C9: the stored start and end time of day are the hour and minute of the
\* start and end instants in the current timezone, whenever present.
C9_TimeFieldsAreViewOfInstants ==
    /\ value.start # NULL =>
          startTime = [hour |-> ZonedHour(value.start, tz),
                       minute |-> ZonedMinute(value.start, tz)]
    /\ value.end # NULL =>
          endTime = [hour |-> ZonedHour(value.end, tz),
                     minute |-> ZonedMinute(value.end, tz)]

\* C10: a time edit of a present endpoint to an hour in 0-23 and a minute in
\* 0-59, at a wall-clock time the zone shows exactly once, keeps the zoned
\* calendar day of the endpoint, gives it that hour and minute, and changes
\* neither the other endpoint nor the timezone.
C10_TimeEditSetsZonedTimeOfDay ==
    [][ \A type \in {"start", "end"}, field \in {"hour", "minute"} :
        \A val \in TimeVals(field) :
          LET before == IF type = "start" THEN value.start ELSE value.end
              after == IF type = "start" THEN value'.start ELSE value'.end
              time == IF type = "start" THEN startTime' ELSE endTime'
              wall == setHours(utcToZonedTime(before, tz), time.hour, time.minute)
          IN  (TimeChange(type, field, val) /\ before # NULL
                  /\ HourInRange(time) /\ NoTransitionAt(wall, tz))
              => /\ ZonedDay(after, tz) = ZonedDay(before, tz)
                 /\ ZonedHour(after, tz) = time.hour
                 /\ ZonedMinute(after, tz) = time.minute
                 /\ (type = "start" => value'.end = value.end)
                 /\ (type = "end" => value'.start = value.start)
                 /\ value'.timezone = value.timezone ]_vars

C10_Witness ==
    /\ last.op = "time" /\ last.which = "start" /\ last.from # "Empty"
    /\ startTime = [hour |-> 23, minute |-> 30]
    /\ ZonedHour(value.start, tz) = 23 /\ ZonedMinute(value.start, tz) = 30

\* The last event was a time edit of an endpoint that was absent.
LastEditHadNoTarget ==
    /\ last.op = "time"
    /\ \/ last.which = "start" /\ last.from = "Empty"
       \/ last.which = "end" /\ last.from # "Complete"

\* C11: a time edit of an absent endpoint changes neither start, end nor
\* timezone, and selecting a date that is not disabled right after it still
\* sets the endpoint to exactly that date.
C11_TimeEditOfAbsentEndpointIsNoOp ==
    [][ /\ \A type \in {"start", "end"}, field \in {"hour", "minute"} :
           \A val \in TimeVals(field) :
             (TimeChange(type, field, val)
                 /\ (IF type = "start" THEN value.start ELSE value.end) = NULL)
             => value' = value
        /\ \A date \in Selectable :
             (LastEditHadNoTarget /\ SelectDate(date) /\ Enabled(date))
             => IF value.start = NULL
                THEN value'.start = date /\ value'.end = NULL
                ELSE /\ value'.start = Min(value.start, date)
                     /\ value'.end = Max(value.start, date) ]_vars

C11_Witness ==
    /\ LastEditHadNoTarget /\ last.which = "end" /\ last.from = "PartialStart"
    /\ endTime.hour = 2
    /\ value.start # NULL /\ value.end = NULL

\* C12: the number of blank cells before the first day of the displayed
\* month is the Monday-first index of the zoned weekday of that day
\* (Monday = 0 .. Sunday = 6), and lies in 0..6.
C12_StartIndexIsMondayFirstWeekday ==
    /\ startIndex = MondayIndex(ZonedDay(firstDay, tz))
    /\ startIndex \in 0..6

\* The wall-clock time a start time edit asks for: the zoned calendar day of
\* the start, with the hour and minute the start time inputs show.
RequestedWall(instant, time, zone) ==
    ZonedDay(instant, zone) * MinutesPerDay + time.hour * MinutesPerHour + time.minute

\* The length of the local hour skipped or repeated at a DST transition.
DstShift == MinutesPerHour

\* C13: where the zone shows the wall-clock time of an instant exactly once,
\* converting the instant to the zone and back returns the instant, and a
\* time edit to the hour and minute the start already has in the zone
\* returns the same start.
C13_RoundTripAndSameTimeEdit ==
    [][ /\ NoTransitionAt(utcToZonedTime(value.start, tz), tz)
           => zonedTimeToUtc(utcToZonedTime(value.start, tz), tz) = value.start
        /\ \A field \in {"hour", "minute"} : \A val \in ClockVals(field) :
             (/\ ClockEdit(field, val)
              /\ NoTransitionAt(utcToZonedTime(value.start, tz), tz)
              /\ startTime'.hour = ZonedHour(value.start, tz)
              /\ startTime'.minute = ZonedMinute(value.start, tz))
             => value'.start = value.start ]_vars

C13_Witness ==
    /\ last.op = "time" /\ last.date = value.start
    /\ tz = "America/New_York"
    /\ value.start \in NewYorkDstStart .. (NewYorkDstStart + 3 * MinutesPerHour)
    /\ startTime.hour = ZonedHour(value.start, tz)
    /\ startTime.minute = ZonedMinute(value.start, tz)

\* C14: a time edit that asks for a wall-clock time inside the local hour
\* skipped at a spring-forward transition gives the instant at which the
\* zone shows that time shifted forward by the skipped hour
\* (America/New_York 2023-03-12 02:30 gives 03:30 local).
C14_SkippedHourShiftsForward ==
    [][ \A field \in {"hour", "minute"} : \A val \in ClockVals(field) :
          (/\ ClockEdit(field, val)
           /\ InstantsShowing(RequestedWall(value.start, startTime', tz), tz) = {})
          => utcToZonedTime(value'.start, tz)
                = RequestedWall(value.start, startTime', tz) + DstShift ]_vars

\* C15: a time edit that asks for a wall-clock time of the local hour
\* repeated at a fall-back transition gives the earlier of the two instants
\* at which the zone shows it.
C15_RepeatedHourGivesEarlierInstant ==
    [][ \A field \in {"hour", "minute"} : \A val \in ClockVals(field) :
          (/\ ClockEdit(field, val)
           /\ Cardinality(InstantsShowing(RequestedWall(value.start, startTime', tz), tz)) = 2)
          => \A i \in InstantsShowing(RequestedWall(value.start, startTime', tz), tz) :
                value'.start <= i ]_vars

\* The rules of validation in the order in which they are applied.
RuleOrder == <<"BelowMinimum", "AboveMaximum", "ContainsBlackout", "TooShort", "TooLong">>

\* Whether a range with both endpoints violates the rule, taken alone.
Violates(rule, start, end, c, zone) ==
    CASE rule = "BelowMinimum" -> c.min # NULL /\ start < c.min
      [] rule = "AboveMaximum" -> c.max # NULL /\ end > c.max
      [] rule = "ContainsBlackout" ->
            \E b \in c.blackouts : b \in ZonedDay(start, zone) .. ZonedDay(end, zone)
      [] rule = "TooShort" -> c.minDuration # NULL /\ end - start < c.minDuration
      [] rule = "TooLong" -> c.maxDuration # NULL /\ end - start > c.maxDuration

ViolatedRules(start, end, c, zone) ==
    { n \in 1..Len(RuleOrder) : Violates(RuleOrder[n], start, end, c, zone) }

FirstViolated(start, end, c, zone) ==
    IF start = NULL \/ end = NULL \/ ViolatedRules(start, end, c, zone) = {}
    THEN Ok
    ELSE RuleOrder[CHOOSE n \in ViolatedRules(start, end, c, zone) :
                       \A m \in ViolatedRules(start, end, c, zone) : n <= m]

\* The constraints of the stories with each bound, the blackouts and each
\* duration present or absent.
ConstraintChoices ==
    [ min         : {NULL, constraints.min},
      max         : {NULL, constraints.max},
      blackouts   : {{}, constraints.blackouts},
      minDuration : {NULL, constraints.minDuration},
      maxDuration : {NULL, constraints.maxDuration} ]

\* C16: validation gives Ok when start or end is absent; otherwise the first
\* violated rule in the order BelowMinimum, AboveMaximum, ContainsBlackout,
\* TooShort, TooLong, or Ok when no rule is violated; the error a date click
\* stores is that result for the new range.
C16_ValidateGivesFirstViolatedRule ==
    /\ \A c \in ConstraintChoices :
          validateRange(value.start, value.end, c)
              = FirstViolated(value.start, value.end, c, LocalZone)
    /\ (last.op = "click" /\ ~last.disabled)
          => error = FirstViolated(value.start, value.end, constraints, LocalZone)

C16_Witness ==
    /\ last.op = "click" /\ ~last.disabled /\ BothPresent(value)
    /\ error = "BelowMinimum"
    /\ Cardinality(ViolatedRules(value.start, value.end, constraints, LocalZone)) >= 3

\* C17: when a date selection or a time edit has validated a range with
\* both endpoints that is neither below the minimum nor above the maximum,
\* the error is ContainsBlackout exactly when a blackout date lies between
\* the calendar dates of start and end in the timezone of the range.
C17_BlackoutComparedInRangeZone ==
    (/\ last.op \in {"click", "enter", "time"} /\ ~last.disabled
     /\ BothPresent(value)
     /\ ~Violates("BelowMinimum", value.start, value.end, constraints, tz)
     /\ ~Violates("AboveMaximum", value.start, value.end, constraints, tz))
    => (error = "ContainsBlackout"
          <=> Violates("ContainsBlackout", value.start, value.end, constraints, tz))

\* C18: a preset click replaces start and end with the pair the preset
\* gives for the instant of the click and keeps the timezone, whatever the
\* selection state.
C18_PresetReplacesStartAndEnd ==
    [][ \A preset \in Presets, now \in PresetNows, runtime \in RuntimeZones :
          PresetClickAt(preset, now, runtime)
          => /\ value'.start = getRangeIn(preset, now, runtime).start
             /\ value'.end = getRangeIn(preset, now, runtime).end
             /\ value'.timezone = value.timezone ]_vars

C18_Witness ==
    /\ last.op \in Presets /\ last.from = "PartialStart"
    /\ value.end = last.date /\ value.start < value.end
    /\ value.start = getRangeIn(last.op, last.date, last.which).start

\* C19 as stated: the Last 7 days preset gives end = now and
\* end - start = 7 x 24 hours, for any now.
C19_LastSevenDaysIsSevenTimes24Hours ==
    last.op = "Last 7 days"
    => /\ value.end = last.date
       /\ value.start <= value.end
       /\ value.end - value.start = 7 * MinutesPerDay

\* C19 as amended: the Last 7 days preset gives end = now and start = the
\* instant seven calendar days earlier on the runtime's local clock, so
\* start <= end; end - start is 7 x 24 hours when the runtime's zone kept
\* its offset over the eight days before now, and within one hour of it
\* otherwise.
C19_LastSevenDaysIsSevenCalendarDays ==
    last.op = "Last 7 days"
    => LET now == last.date
           runtime == last.which
           localBefore == utcToZonedTime(now, runtime) - 7 * MinutesPerDay
       IN  /\ value.end = now
           /\ value.start <= value.end
           /\ NoTransitionAt(localBefore, runtime)
                 => utcToZonedTime(value.start, runtime) = localBefore
           /\ Offset(runtime, now - 8 * MinutesPerDay) = Offset(runtime, now)
                 => value.end - value.start = 7 * MinutesPerDay
           /\ value.end - value.start
                 \in (7 * MinutesPerDay - DstShift) .. (7 * MinutesPerDay + DstShift)

C19_Witness ==
    /\ last.op = "Last 7 days" /\ last.which = "America/New_York"
    /\ last.date = AtUTC(5, 10, 0, 0)
    /\ value.start = AtUTC(5, 3, 0, 0) /\ value.end = AtUTC(5, 10, 0, 0)

\* The days each direction moves the focus by, and the opposite direction.
DirectionDays ==
    [ArrowLeft |-> -1, ArrowRight |-> 1, ArrowUp |-> -7, ArrowDown |-> 7]

Opposite ==
    [ArrowLeft |-> "ArrowRight", ArrowRight |-> "ArrowLeft",
     ArrowUp |-> "ArrowDown", ArrowDown |-> "ArrowUp"]

\* C20: an arrow key moves the focused date by -1, +1, -7 or +7 days
\* (left, right, up, down) whatever the range and the constraints, leaves
\* start, end, timezone and the error unchanged, and the opposite key
\* applied to the result gives back the date that had the focus.
C20_ArrowKeysMoveFocusOnly ==
    [][ \A key \in ArrowKeys :
          ArrowKeyPress(key)
          => /\ focusedDate' = focusedDate + DirectionDays[key] * MinutesPerDay
             /\ value' = value /\ error' = error
             /\ addDays(focusedDate', keyAmount(Opposite[key])) = focusedDate ]_vars

C20_Witness ==
    /\ last.op = "ArrowDown" /\ last.from = "PartialStart"
    /\ focusedDate = last.date + 7 * MinutesPerDay
    /\ isDateDisabled(focusedDate, constraints, tz)
    /\ value.start # NULL /\ value.end = NULL

C23_FocusStaysInDisplayedMonth ==
    /\ focusedDate # NULL => focusedDate \in calendarDays
    /\ (last.op = "Enter" /\ last.date # NULL /\ ~last.disabled)
          => last.date \in calendarDays

\* C24: starting from an empty range, an end is present only if a start is
\* present: the range is Empty, PartialStart or Complete, never end-only.
C24_NoEndWithoutStart == value.end # NULL => value.start # NULL

C24_Witness ==
    /\ events >= 3
    /\ last.op = "click" /\ ~last.disabled /\ last.from = "Complete"
    /\ Kind(value) = "PartialStart"

\* C25: the start and end time-of-day fields stay within hour 0-23 and
\* minute 0-59, and a time edit leaves the edited instant on the zoned
\* calendar day it was on.
C25_TimeFieldsInRangeAndDayKept ==
    /\ HourInRange(startTime) /\ HourInRange(endTime)
    /\ (last.op = "time" /\ last.date # NULL)
          => ZonedDay(IF last.which = "start" THEN value.start ELSE value.end, tz)
                = ZonedDay(last.date, tz)

\* C26: the month named in the header is the month of every day the grid
\* enumerates, in the selected timezone.
C26_HeaderNamesMonthOfGrid ==
    \A date \in calendarDays : formatInTimezoneMonth(date, tz) = headerMonth

====
